---- MODULE Spec2Model ----
(***************************************************************************)
(* Model of the retrieval core of ai-contract-review:                      *)
(*   services/pinecone_rag_service.py, class PineconeRAGService.           *)
(*                                                                         *)
(* A text is the sequence of token ids the tokenizer encodes it to; token  *)
(* WS stands for white space (what str.strip() removes at both ends).      *)
(* The vector store is a map from record id to record.  Every call to an   *)
(* external service (fetch, embeddings, query, upsert, chat completion)    *)
(* either answers or raises; which one is an input of the action.          *)
(*                                                                         *)
(* Specifications:                                                         *)
(*   ChunkSpec    the pure function _chunk_document on drawn inputs        *)
(*   Spec         the service: upload_contract and ask_contract calls      *)
(*   BatchSpec    the service: uploads that need several upsert batches    *)
(*   RestartSpec  the service constructed again over the same account      *)
(*   ConcSpec     upload_contract calls interleaved                        *)
(*   RetrieveSpec _retrieve_relevant_chunks on drawn stores                *)
(*   DedupSpec    _similarity_deduplication_check on drawn stores          *)
(*   ConfigSpec   the window attributes assigned other values              *)
(*   RepeatSpec   uploads of documents with a repeated chunk               *)
(*   MemSpec      services/rag_service.py, the in-memory RAGService        *)
(***************************************************************************)
EXTENDS Integers, Sequences, FiniteSets, TLC

VARIABLES
    c_pc,        \* ChunkSpec: "start" before _chunk_document ran, "done" after
    c_in,        \* ChunkSpec: the input [tokens, filename, chunk_size, overlap]
    c_out,       \* ChunkSpec: the chunks returned
    index,       \* self.index is not None
    indexes,     \* the names of the indexes the Pinecone account holds
    chunk_size,  \* self.chunk_size
    overlap,     \* self.overlap
    store,       \* the Pinecone index: record id -> [values, metadata]
    clock,       \* datetime.now(), one tick per call
    uploads,     \* ConcSpec: the upload_contract calls in flight, by uploader
    mem,         \* the in-memory RAGService: FAISS index, document_chunks, document_metadata
    op,          \* the last call: its arguments, what it did, what it returned
    prev         \* the call before the last one

vars == <<c_pc, c_in, c_out, index, indexes, chunk_size, overlap, store, clock, uploads, mem, op, prev>>

chunkVars == <<c_pc, c_in, c_out>>
serviceVars == <<index, indexes, chunk_size, overlap, store, clock, uploads, mem, op, prev>>

-----------------------------------------------------------------------------
(* Bounds of the model *)

\* longest token sequence drawn for the chunker with a small window
MaxTokens == 12
\* largest small window drawn for the chunker
MaxChunkSize == 5
\* calls made to one service instance
MaxOps == 2
\* tokens of the long document, which needs more than one upsert batch
LongLen == 102
\* upload_contract calls running at the same time
MaxUploaders == 2
\* calls made to one in-memory RAGService instance
MaxMemOps == 3

(* Program constants *)

\* self.chunk_size as shipped
DefaultChunkSize == 800
\* self.overlap as shipped
DefaultOverlap == 100
\* batch_size of the upsert loop
BatchSize == 100
\* top_k of the similarity de-duplication query
DedupTopK == 3
\* k of the retrieval in ask_contract
AskTopK == 7
\* threshold=0.97 of the similarity check, in hundredths
Threshold == 97
\* metadata keeps chunk["text"][:1000]
MetaTextLimit == 1000

-----------------------------------------------------------------------------
(* Helpers on sequences *)

Min(a, b) == IF a <= b THEN a ELSE b
Max(a, b) == IF a >= b THEN a ELSE b

Range(s) == {s[k] : k \in DOMAIN s}

\* [s[k] for k in lo..hi if k in keep], order kept (halving keeps the
\* evaluation shallow on long lists)
RECURSIVE FilterRange(_, _, _, _)
FilterRange(s, keep, lo, hi) ==
    IF lo > hi THEN <<>>
    ELSE IF lo = hi THEN (IF lo \in keep THEN <<s[lo]>> ELSE <<>>)
    ELSE FilterRange(s, keep, lo, (lo + hi) \div 2)
            \o FilterRange(s, keep, (lo + hi) \div 2 + 1, hi)

\* the list taken whole
FilterKeepsAll(s, keep) == s

\* [x for k, x in enumerate(s) if k in keep]
FilterIdx(s, keep) == FilterRange(s, keep, 1, Len(s))

\* range(start, stop, step) for step > 0: start, start + step, ... below stop
PyRange(start, stop, step) ==
    [j \in 1..(IF stop <= start THEN 0 ELSE (stop - start + step - 1) \div step) |->
        start + (j - 1) * step]

\* Python's s[a:b] on a sequence, 0-based half-open
Slice(s, a, b) == SubSeq(s, a + 1, Min(b, Len(s)))

-----------------------------------------------------------------------------
(* Tokens and text *)

WS == 0

RECURSIVE LStrip(_)
LStrip(t) == IF t # <<>> /\ Head(t) = WS THEN LStrip(Tail(t)) ELSE t

RECURSIVE RStrip(_)
RStrip(t) ==
    IF t # <<>> /\ t[Len(t)] = WS THEN RStrip(SubSeq(t, 1, Len(t) - 1)) ELSE t

\* str.strip()
Strip(t) == RStrip(LStrip(t))

\* the digest of the stripped text alone
ChunkHashOfTextOnly(text, filename) == <<"", Strip(text)>>

\* sha256(f"{filename}:{text.strip()}"): a digest, one per content
_generate_chunk_hash(text, filename) == <<filename, Strip(text)>>

\* f"doc_{sha256(filename:upload_time)[:12]}"
_generate_doc_id(filename, upload_time) == <<"doc", filename, upload_time>>

-----------------------------------------------------------------------------
(* _chunk_document: the loop  for i in range(0, len(tokens), size - overlap) *)

MkChunk(tokens, filename, size, i, n) ==
    LET chunk_end == Min(i + size, Len(tokens))
        chunk_tokens == Slice(tokens, i, chunk_end)
    IN [text        |-> chunk_tokens,
        filename    |-> filename,
        chunk_index |-> n,
        token_count |-> Len(chunk_tokens),
        start_token |-> i,
        end_token   |-> chunk_end,
        chunk_hash  |-> _generate_chunk_hash(chunk_tokens, filename)]

\* the window stepped by chunk_size alone
ChunkNoOverlap(tokens, filename, size, ov) ==
    LET starts == PyRange(0, Len(tokens), size)
    IN [j \in DOMAIN starts |-> MkChunk(tokens, filename, size, starts[j], j - 1)]

\* only full windows taken
ChunkFullOnly(tokens, filename, size, ov) ==
    LET starts == PyRange(0, Len(tokens) - size + 1, size - ov)
    IN [j \in DOMAIN starts |-> MkChunk(tokens, filename, size, starts[j], j - 1)]

\* chunk_index read after the append
ChunkIndexOneBased(tokens, filename, size, ov) ==
    LET starts == PyRange(0, Len(tokens), size - ov)
    IN [j \in DOMAIN starts |-> MkChunk(tokens, filename, size, starts[j], j)]

\* for i in range(0, len(tokens), size - ov): chunks.append(chunk at i), the
\* chunk's index being len(chunks) before the append.  range() with a
\* negative step is empty; a zero step raises (see ChunkRaises)
_chunk_document(tokens, filename, size, ov) ==
    IF size - ov <= 0 THEN <<>>
    ELSE LET starts == PyRange(0, Len(tokens), size - ov)
         IN [j \in DOMAIN starts |-> MkChunk(tokens, filename, size, starts[j], j - 1)]

\* range(0, n, 0) raises ValueError
ChunkRaises(size, ov) == size - ov = 0

-----------------------------------------------------------------------------
(* ChunkSpec: _chunk_document applied to drawn inputs *)

\* the text of n tokens: ids 1, 2, 0, 1, 2, 0, ... (every third one white space)
TextOfLen(n) == [k \in 1..n |-> k % 3]

\* lengths tried with the shipped window
ShippedLens == {0, 1, 699, 700, 701, 799, 800, 801, 1400, 1401, 1500, 2000, 2101}

ChunkInputs ==
    {[tokens |-> TextOfLen(n), filename |-> "f1", chunk_size |-> cs, overlap |-> ov] :
        n \in 0..MaxTokens, cs \in 1..MaxChunkSize, ov \in 0..(MaxChunkSize - 1)}
    \cup
    {[tokens |-> TextOfLen(n), filename |-> "f1",
      chunk_size |-> DefaultChunkSize, overlap |-> DefaultOverlap] : n \in ShippedLens}

NoOp == [name |-> "none"]

\* self.index_name
IndexName == "contracts-rag"

\* RAGService.__init__: self.index = None, no chunks, no metadata
MemEmpty ==
    [index |-> [built |-> FALSE, vectors |-> <<>>],
     document_chunks |-> <<>>, document_metadata |-> <<>>]

ServiceIdle ==
    /\ index = FALSE
    /\ indexes = {}
    /\ chunk_size = DefaultChunkSize
    /\ overlap = DefaultOverlap
    /\ store = <<>>
    /\ clock = 0
    /\ uploads = <<>>
    /\ mem = MemEmpty
    /\ op = NoOp
    /\ prev = NoOp

ChunkInit ==
    /\ c_pc = "start"
    /\ c_in \in {x \in ChunkInputs : x.overlap < x.chunk_size}
    /\ c_out = <<>>
    /\ ServiceIdle

ChunkDocument ==
    /\ c_pc = "start"
    /\ c_pc' = "done"
    /\ c_out' = _chunk_document(c_in.tokens, c_in.filename, c_in.chunk_size, c_in.overlap)
    /\ UNCHANGED <<c_in, serviceVars>>

ChunkNext == ChunkDocument

ChunkSpec == ChunkInit /\ [][ChunkNext]_vars

-----------------------------------------------------------------------------
(* The embedding provider and the vector store *)

None == "None"

\* the token a text must not contain: tokenizer.encode raises ValueError on it
SPECIAL == -1

EncodeRaises(tokens) == SPECIAL \in Range(tokens)

\* number of positions k of s with s[k] = x
Count(s, x) == Cardinality({k \in DOMAIN s : s[k] = x})

SameTokens(u, v) == Len(u) = Len(v) /\ \A x \in Range(u) \cup Range(v) : Count(u, x) = Count(v, x)

\* embeddings.create for one text: the vector is fixed by the text's content
\* and by how much white space surrounds it
Embed(text) == [core |-> Strip(text), pad |-> Len(text) - Len(Strip(text))]

\* the embeddings call answering one vector per text even when it failed
GetEmbeddingsPlaceholder(texts, fails) ==
    [exc |-> FALSE,
     embeddings |-> [j \in DOMAIN texts |-> Embed(IF fails THEN <<>> ELSE texts[j])]]

\* _get_embeddings: one vector per text, or the exception re-raised as
\* "Failed to generate embeddings"; fails says the API call raises
_get_embeddings(texts, fails) ==
    IF fails THEN [exc |-> TRUE, embeddings |-> <<>>]
    ELSE [exc |-> FALSE, embeddings |-> [j \in DOMAIN texts |-> Embed(texts[j])]]

\* a token id from VariantBase on stands for another wording of the token
\* VariantBase below it: texts that differ in wording only are different
\* texts with nearly the same embedding
VariantBase == 200

Canon(x) == IF x >= VariantBase THEN x - VariantBase ELSE x

\* the two texts read the same up to the wording of their tokens
SameReading(u, v) == Len(u) = Len(v) /\ \A k \in DOMAIN u : Canon(u[k]) = Canon(v[k])

\* cosine similarity of two vectors, in hundredths
Score(u, v) ==
    IF u = v THEN 100
    ELSE IF u.core = v.core THEN 98
    ELSE IF SameReading(u.core, v.core) THEN 99
    ELSE IF SameTokens(u.core, v.core) THEN 97
    ELSE 50

SetMax(S) == CHOOSE x \in S : \A y \in S : y <= x

\* index.query(vector, top_k): the top_k records by descending score
RECURSIVE TopK(_, _, _, _)
TopK(st, ids, vec, k) ==
    IF k = 0 \/ ids = {} THEN <<>>
    ELSE LET best == SetMax({Score(st[i].values, vec) : i \in ids})
             hit  == CHOOSE i \in ids : Score(st[i].values, vec) = best
         IN <<[id |-> hit, score |-> best, metadata |-> st[hit].metadata]>>
                \o TopK(st, ids \ {hit}, vec, k - 1)

Query(st, vec, k) == TopK(st, DOMAIN st, vec, k)

\* the last record of a batch with the given id
LastWith(batch, id) ==
    batch[SetMax({k \in DOMAIN batch : batch[k].id = id})]

\* index.upsert(vectors=batch): writes or overwrites, the whole batch at once
Upsert(st, batch) ==
    LET ids == {batch[k].id : k \in DOMAIN batch}
    IN [id \in DOMAIN st \cup ids |->
          IF id \in ids
          THEN [values |-> LastWith(batch, id).values,
                metadata |-> LastWith(batch, id).metadata]
          ELSE st[id]]

-----------------------------------------------------------------------------
(* _check_existing_chunks: one fetch per hash; a fetch that raises is skipped *)

\* the first raising fetch ends the check with what was found before it
CheckAbortOnRaise(st, idx, hashes, fails) ==
    IF ~idx THEN <<>>
    ELSE FilterIdx(hashes, {k \in DOMAIN hashes :
                              /\ \A m \in fails : m > k
                              /\ hashes[k] \in DOMAIN st})

\* for chunk_hash in chunk_hashes: fetch it, keep it when the answer holds it;
\* fails: the ordinals of the fetch calls that raise (skipped by "continue")
_check_existing_chunks(st, idx, hashes, fails) ==
    IF ~idx THEN <<>>
    ELSE FilterIdx(hashes, {k \in DOMAIN hashes : k \notin fails /\ hashes[k] \in DOMAIN st})

-----------------------------------------------------------------------------
(* _similarity_deduplication_check: one top-3 query per new embedding; the   *)
(* whole check returns [] when a query raises                               *)

\* the comparison done with "at least the threshold"
IsDuplicateAtThreshold(st, emb, threshold) ==
    LET matches == Query(st, emb, DedupTopK)
    IN \E m \in DOMAIN matches : matches[m].score >= threshold

\* for match in matches: if match.score > threshold: append i, break
IsDuplicate(st, emb, threshold) ==
    LET matches == Query(st, emb, DedupTopK)
    IN \E m \in DOMAIN matches : matches[m].score > threshold

\* the check run as if every embedding before the one queried were stored
\* already
SimilarityCheckWithinUpload(st, idx, embs, threshold, failAt) ==
    IF ~idx THEN [dups |-> <<>>, queries |-> 0, failed |-> FALSE]
    ELSE IF failAt \in DOMAIN embs
    THEN [dups |-> <<>>, queries |-> failAt, failed |-> TRUE]
    ELSE [dups |-> FilterIdx([k \in DOMAIN embs |-> k - 1],
                             {k \in DOMAIN embs :
                                 \/ IsDuplicate(st, embs[k], threshold)
                                 \/ \E j \in 1..(k - 1) : Score(embs[j], embs[k]) > threshold}),
          queries |-> Len(embs), failed |-> FALSE]

\* a raising query ends the check with the duplicates found before it
SimilarityCheckKeepsFound(st, idx, embs, threshold, failAt) ==
    IF ~idx THEN [dups |-> <<>>, queries |-> 0, failed |-> FALSE]
    ELSE LET asked == IF failAt \in DOMAIN embs THEN failAt - 1 ELSE Len(embs)
         IN [dups |-> FilterIdx([k \in DOMAIN embs |-> k - 1],
                                {k \in 1..asked : IsDuplicate(st, embs[k], threshold)}),
             queries |-> IF failAt \in DOMAIN embs THEN failAt ELSE Len(embs),
             failed |-> failAt \in DOMAIN embs]

\* for i, embedding in enumerate(new_embeddings): query, append i on a score
\* above the threshold.  failAt: the ordinal of the query call that raises
\* (0: none); the except clause then returns []
_similarity_deduplication_check(st, idx, embs, threshold, failAt) ==
    IF ~idx THEN [dups |-> <<>>, queries |-> 0, failed |-> FALSE]
    ELSE IF failAt \in DOMAIN embs
    THEN [dups |-> <<>>, queries |-> failAt, failed |-> TRUE]
    ELSE [dups |-> FilterIdx([k \in DOMAIN embs |-> k - 1],
                             {k \in DOMAIN embs : IsDuplicate(st, embs[k], threshold)}),
          queries |-> Len(embs), failed |-> FALSE]

-----------------------------------------------------------------------------
(* upload_contract *)

RECURSIVE SumRange(_, _, _)
SumRange(chunks, lo, hi) ==
    IF lo > hi THEN 0
    ELSE IF lo = hi THEN chunks[lo].token_count
    ELSE SumRange(chunks, lo, (lo + hi) \div 2) + SumRange(chunks, (lo + hi) \div 2 + 1, hi)

\* sum(chunk["token_count"] for chunk in chunks)
SumTokens(chunks) == SumRange(chunks, 1, Len(chunks))

Unavailable == "The knowledge database is temporarily unavailable. Please try again shortly."

\* the vectors list with an id of its own for every upload
MkVectorsIdPerUpload(final_chunks, final_embeddings, filename, email, jurisdiction, contract_type, upload_time) ==
    [i \in 1..Min(Len(final_chunks), Len(final_embeddings)) |->
        [id |-> <<final_chunks[i].chunk_hash, upload_time>>,
         values |-> final_embeddings[i],
         metadata |->
            [doc_id        |-> _generate_doc_id(filename, upload_time),
             chunk_id      |-> <<"chunk", i>>,
             filename      |-> filename,
             text          |-> Slice(final_chunks[i].text, 0, MetaTextLimit),
             chunk_index   |-> final_chunks[i].chunk_index,
             token_count   |-> final_chunks[i].token_count,
             jurisdiction  |-> IF jurisdiction = None THEN "unspecified" ELSE jurisdiction,
             contract_type |-> IF contract_type = None THEN "unspecified" ELSE contract_type,
             uploaded_by   |-> IF email = None THEN "anonymous" ELSE email,
             source_url    |-> "",
             upload_date   |-> upload_time]]]

\* the vectors list built by the loop over zip(final_chunks, final_embeddings)
MkVectors(final_chunks, final_embeddings, filename, email, jurisdiction, contract_type, upload_time) ==
    [i \in 1..Min(Len(final_chunks), Len(final_embeddings)) |->
        [id |-> final_chunks[i].chunk_hash,
         values |-> final_embeddings[i],
         metadata |->
            [doc_id        |-> _generate_doc_id(filename, upload_time),
             chunk_id      |-> <<"chunk", i>>,
             filename      |-> filename,
             text          |-> Slice(final_chunks[i].text, 0, MetaTextLimit),
             chunk_index   |-> final_chunks[i].chunk_index,
             token_count   |-> final_chunks[i].token_count,
             jurisdiction  |-> IF jurisdiction = None THEN "unspecified" ELSE jurisdiction,
             contract_type |-> IF contract_type = None THEN "unspecified" ELSE contract_type,
             uploaded_by   |-> IF email = None THEN "anonymous" ELSE email,
             source_url    |-> "",
             upload_date   |-> upload_time]]]

\* for i in range(0, len(vectors), batch_size): self.index.upsert(vectors[i:i+batch_size])
\* failAt: the ordinal of the upsert call that raises (0: none)
RECURSIVE UpsertLoop(_, _, _, _, _)
UpsertLoop(st, vectors, i, failAt, calls) ==
    IF i >= Len(vectors) THEN [exc |-> FALSE, store |-> st, calls |-> calls]
    ELSE LET batch == Slice(vectors, i, i + BatchSize)
             ids == {batch[k].id : k \in DOMAIN batch}
         IN IF Len(calls) + 1 = failAt
            THEN [exc |-> TRUE, store |-> st,
                  calls |-> Append(calls, [ids |-> ids, size |-> Len(batch), ok |-> FALSE])]
            ELSE UpsertLoop(Upsert(st, batch), vectors, i + BatchSize, failAt,
                     Append(calls, [ids |-> ids, size |-> Len(batch), ok |-> TRUE]))

\* the embeddings passed on unfiltered
FinalEmbeddingsUnfiltered(embeddings, duplicate_indices) == embeddings

\* [emb for i, emb in enumerate(embeddings) if i not in duplicate_indices]
FinalEmbeddings(embeddings, duplicate_indices) ==
    FilterIdx(embeddings, {j \in DOMAIN embeddings : (j - 1) \notin Range(duplicate_indices)})

\* what a call did, kept for the claims
NoTrace ==
    [n_chunks |-> 0, hashes |-> <<>>, existing_hashes |-> <<>>, new_texts |-> <<>>,
     fetch_raised |-> FALSE, fetch_failed |-> {}, embed_calls |-> <<>>, embed_raised |-> FALSE,
     queries |-> 0, query_raised |-> FALSE, duplicate_indices |-> <<>>,
     near_dups |-> {}, final_hashes |-> <<>>,
     upserts |-> <<>>, chunk_raised |-> FALSE]

\* the body of the try block of upload_contract: exc says an exception left it
UploadBody(st, idx, size, ov, now, text, filename, email, jurisdiction, contract_type, f) ==
    IF ~idx
    THEN [exc |-> FALSE, store |-> st, trace |-> NoTrace,
          ret |-> [status |-> "error", error |-> Unavailable]]
    ELSE IF EncodeRaises(text) \/ ChunkRaises(size, ov)
    THEN [exc |-> TRUE, store |-> st, cause |-> "chunking",
          trace |-> [NoTrace EXCEPT !.chunk_raised = TRUE]]
    ELSE
    LET chunks == _chunk_document(text, filename, size, ov)
        chunk_hashes == [j \in DOMAIN chunks |-> chunks[j].chunk_hash]
        existing_hashes == _check_existing_chunks(st, idx, chunk_hashes, f.fetch)
        new_pos == {j \in DOMAIN chunks : chunks[j].chunk_hash \notin Range(existing_hashes)}
        new_chunks == FilterIdx(chunks, new_pos)
        t1 == [NoTrace EXCEPT !.n_chunks = Len(chunks), !.hashes = chunk_hashes,
                              !.existing_hashes = existing_hashes,
                              !.new_texts = [j \in DOMAIN new_chunks |-> new_chunks[j].text],
                              !.fetch_raised = (f.fetch \cap DOMAIN chunks # {}),
                              !.fetch_failed = f.fetch \cap DOMAIN chunks]
    IN
    IF new_chunks = <<>>
    THEN [exc |-> FALSE, store |-> st, trace |-> t1,
          ret |-> [status |-> "success", filename |-> filename, chunks_created |-> 0,
                   chunks_skipped |-> Len(chunks),
                   message |-> "Document already exists - no new chunks added",
                   total_tokens |-> SumTokens(chunks)]]
    ELSE
    LET chunk_texts == [j \in DOMAIN new_chunks |-> new_chunks[j].text]
        got == _get_embeddings(chunk_texts, f.embed)
        t2 == [t1 EXCEPT !.embed_calls = <<chunk_texts>>, !.embed_raised = f.embed]
    IN
    IF got.exc
    THEN [exc |-> TRUE, store |-> st, cause |-> "Failed to generate embeddings", trace |-> t2]
    ELSE
    LET embeddings == got.embeddings
        check == _similarity_deduplication_check(st, idx, embeddings, Threshold, f.query)
        duplicate_indices == check.dups
        keep == {j \in DOMAIN new_chunks : (j - 1) \notin Range(duplicate_indices)}
        final_chunks == FilterIdx(new_chunks, keep)
        final_embeddings == FinalEmbeddings(embeddings, duplicate_indices)
        t3 == [t2 EXCEPT !.queries = check.queries, !.query_raised = check.failed,
                         !.duplicate_indices = duplicate_indices,
                         !.near_dups = {j \in DOMAIN new_chunks :
                                          \E i \in DOMAIN st :
                                             Score(st[i].values, embeddings[j]) > Threshold},
                         !.final_hashes = [j \in DOMAIN final_chunks |-> final_chunks[j].chunk_hash]]
    IN
    IF Len(final_chunks) = 0
    THEN [exc |-> FALSE, store |-> st, trace |-> t3,
          ret |-> [status |-> "success", filename |-> filename, chunks_created |-> 0,
                   chunks_skipped |-> Len(chunks),
                   message |-> "All chunks were duplicates - no new vectors added",
                   total_tokens |-> SumTokens(chunks)]]
    ELSE
    LET upload_time == now
        doc_id == _generate_doc_id(filename, upload_time)
        vectors == MkVectors(final_chunks, final_embeddings, filename, email,
                             jurisdiction, contract_type, upload_time)
        up == UpsertLoop(st, vectors, 0, f.upsert, <<>>)
        t4 == [t3 EXCEPT !.upserts = up.calls]
    IN
    IF up.exc
    THEN [exc |-> TRUE, store |-> up.store, cause |-> "upsert", trace |-> t4]
    ELSE [exc |-> FALSE, store |-> up.store, trace |-> t4,
          ret |-> [status |-> "success", filename |-> filename, doc_id |-> doc_id,
                   chunks_created |-> Len(final_chunks),
                   chunks_skipped_hash |-> Len(existing_hashes),
                   chunks_skipped_similarity |-> Len(duplicate_indices),
                   total_tokens |-> SumTokens(final_chunks),
                   index_name |-> IndexName,
                   embedding_model |-> "text-embedding-3-small"]]

\* a handler that lets the exceptions of the upsert loop through
UploadHandlerUpsertEscapes(body) ==
    IF body.exc /\ body.cause = "upsert"
    THEN [raised |-> TRUE, store |-> body.store, trace |-> body.trace,
          result |-> [status |-> "raised"]]
    ELSE IF body.exc
    THEN [raised |-> FALSE, store |-> body.store, trace |-> body.trace,
          result |-> [status |-> "error", error |-> <<"Failed to upload contract", body.cause>>]]
    ELSE [raised |-> FALSE, store |-> body.store, trace |-> body.trace, result |-> body.ret]

\* try: ... except Exception as e: return {"status": "error", "error": ...}
UploadHandler(body) ==
    IF body.exc
    THEN [raised |-> FALSE, store |-> body.store, trace |-> body.trace,
          result |-> [status |-> "error", error |-> <<"Failed to upload contract", body.cause>>]]
    ELSE [raised |-> FALSE, store |-> body.store, trace |-> body.trace, result |-> body.ret]

upload_contract(st, idx, size, ov, now, text, filename, email, jurisdiction, contract_type, f) ==
    UploadHandler(UploadBody(st, idx, size, ov, now, text, filename, email,
                             jurisdiction, contract_type, f))

-----------------------------------------------------------------------------
(* ask_contract *)

non_contract_indicators ==
    {"weather", "joke", "recipe", "cook", "food", "movie", "music", "game",
     "sports", "news", "time", "date", "math", "calculate", "translate",
     "directions", "travel", "shopping", "restaurant", "hotel", "flight"}

contract_keywords ==
    {"contract", "agreement", "legal", "sla", "msa", "nda", "clause", "terms", "service level"}

\* query.lower(), word by word
Lower(w) ==
    CASE w = "Weather" -> "weather"
      [] w = "NDA" -> "nda"
      [] OTHER -> w

\* the listed words that occur in a lower-case word as substrings
Parts(w) ==
    CASE w = "translate" -> {"translate", "sla"}
      [] w = "sometimes" -> {"time"}
      [] w = "update" -> {"date"}
      [] w \in non_contract_indicators \cup contract_keywords -> {w}
      [] OTHER -> {}

\* any(word in query_lower for word in words)
ContainsAny(query, words) ==
    \E k \in DOMAIN query : Parts(Lower(query[k])) \cap words # {}

\* the filter without its look at the contract keywords
FilteredByIndicator(query) == ContainsAny(query, non_contract_indicators)

Filtered(query) ==
    ContainsAny(query, non_contract_indicators) /\ ~ContainsAny(query, contract_keywords)

NoDocsPrefix == "No documents uploaded yet."

FallbackNotes == <<"To get specific analysis of your contracts:", "Upload your contract documents">>

\* dict.get(key, default) on the parsed answer
Get(d, key, default) == IF key \in DOMAIN d THEN d[key] ELSE default

\* min(10, max(0, x)); a score that is no number raises TypeError
ClampRaises(llm) == "overall_risk_score" \in DOMAIN llm.data /\ ~llm.score_is_number
Clamp(x) == Min(10, Max(0, x))

\* the chunk_data dict built from one match
ChunkData(match) ==
    [text |-> match.metadata.text,
     doc_id |-> match.metadata.doc_id,
     chunk_id |-> match.metadata.chunk_id,
     filename |-> match.metadata.filename,
     chunk_index |-> match.metadata.chunk_index,
     token_count |-> match.metadata.token_count,
     relevance_score |-> match.score,
     upload_date |-> match.metadata.upload_date,
     uploaded_by |-> match.metadata.uploaded_by,
     jurisdiction |-> match.metadata.jurisdiction,
     contract_type |-> match.metadata.contract_type]

\* the matches taken from the last to the first
RetrieveReversed(st, idx, query, k, f) ==
    IF ~idx THEN [chunks |-> <<>>, failed |-> FALSE, embed_calls |-> 0, queries |-> 0]
    ELSE IF _get_embeddings(<<query.tokens>>, f.embed).exc
    THEN [chunks |-> <<>>, failed |-> TRUE, embed_calls |-> 1, queries |-> 0]
    ELSE IF f.query # 0 THEN [chunks |-> <<>>, failed |-> TRUE, embed_calls |-> 1, queries |-> 1]
    ELSE LET query_embedding == _get_embeddings(<<query.tokens>>, f.embed).embeddings
             matches == Query(st, query_embedding[1], k)
         IN [chunks |-> [m \in DOMAIN matches |-> ChunkData(matches[Len(matches) + 1 - m])],
             failed |-> FALSE, embed_calls |-> 1, queries |-> 1]

\* _retrieve_relevant_chunks: [] when the index is absent, and when the
\* embedding call or the query raises
_retrieve_relevant_chunks(st, idx, query, k, f) ==
    IF ~idx THEN [chunks |-> <<>>, failed |-> FALSE, embed_calls |-> 0, queries |-> 0]
    ELSE IF _get_embeddings(<<query.tokens>>, f.embed).exc
    THEN [chunks |-> <<>>, failed |-> TRUE, embed_calls |-> 1, queries |-> 0]
    ELSE IF f.query # 0 THEN [chunks |-> <<>>, failed |-> TRUE, embed_calls |-> 1, queries |-> 1]
    ELSE LET query_embedding == _get_embeddings(<<query.tokens>>, f.embed).embeddings
             matches == Query(st, query_embedding[1], k)
         IN [chunks |-> [m \in DOMAIN matches |-> ChunkData(matches[m])],
             failed |-> FALSE, embed_calls |-> 1, queries |-> 1]

FallbackError ==
    [risky_clauses |-> <<>>, missing_protections |-> <<>>, overall_risk_score |-> 0,
     summary |-> <<NoDocsPrefix, "I'd be happy to help with general contract guidance!">>,
     notes |-> FallbackNotes, retrieved_chunks |-> 0, source_documents |-> {},
     storage_type |-> "fallback_error"]

\* _get_global_best_practices_response; llm is what the chat completion did
_get_global_best_practices_response(llm) ==
    IF llm.kind # "json" THEN FallbackError
    ELSE LET analysis_data == llm.data
         IN IF ClampRaises(llm) THEN FallbackError
            ELSE [risky_clauses |-> Get(analysis_data, "risky_clauses", <<>>),
                  missing_protections |-> Get(analysis_data, "missing_protections", <<>>),
                  overall_risk_score |-> Clamp(Get(analysis_data, "overall_risk_score", 0)),
                  summary |-> Get(analysis_data, "summary",
                                  <<NoDocsPrefix, "I'd be happy to help with general contract guidance">>),
                  notes |-> Get(analysis_data, "notes",
                                <<"This response is based on general best practices since no relevant documents were found">>),
                  retrieved_chunks |-> 0, source_documents |-> {},
                  storage_type |-> "global_fallback", fallback_used |-> TRUE]

\* one "[Source: doc_id, chunk_id]" per chunk that carries both ids (every
\* record written by upload_contract does)
SourcesInfo(chunks) ==
    [k \in DOMAIN chunks |-> [doc_id |-> chunks[k].doc_id, chunk_id |-> chunks[k].chunk_id]]

_format_analysis_response_with_citations(analysis_data, chunks) ==
    LET sources_info == SourcesInfo(chunks)
        summary0 == Get(analysis_data, "summary", <<>>)
        summary == IF sources_info # <<>> /\ summary0 # <<>>
                   THEN summary0 \o <<"Sources:">> ELSE summary0
    IN [risky_clauses |-> Get(analysis_data, "risky_clauses", <<>>),
        missing_protections |-> Get(analysis_data, "missing_protections", <<>>),
        overall_risk_score |-> Clamp(Get(analysis_data, "overall_risk_score", 0)),
        summary |-> summary,
        notes |-> Get(analysis_data, "notes", <<>>),
        retrieved_chunks |-> Len(chunks),
        source_documents |-> {chunks[k].filename : k \in DOMAIN chunks},
        source_citations |-> sources_info,
        doc_ids_referenced |-> {chunks[k].doc_id : k \in DOMAIN chunks},
        storage_type |-> "pinecone_persistent_with_citations"]

\* an error result carrying only the error and its details
AskFailureBare(error, summary) == [error |-> error, details |-> <<summary>>]

AskFailure(error, summary) ==
    [error |-> error, risky_clauses |-> <<>>, missing_protections |-> <<>>,
     overall_risk_score |-> 0, summary |-> <<summary>>, notes |-> <<>>]

AskNoTrace == [filtered |-> FALSE, embed_calls |-> 0, queries |-> 0, llm_calls |-> 0,
               retrieval_failed |-> FALSE, matches |-> 0]

\* the try block of ask_contract with its two except clauses
ask_contract(st, idx, query, f) ==
    IF Filtered(query.words)
    THEN [raised |-> FALSE, trace |-> [AskNoTrace EXCEPT !.filtered = TRUE],
          result |-> [error |-> "FILTERED_NON_CONTRACT_QUERY", query_type |-> "non_contract",
                      purpose_statement |-> "I'm your AI Contract Review Assistant",
                      risky_clauses |-> <<>>, missing_protections |-> <<>>,
                      overall_risk_score |-> 0,
                      summary |-> <<"Query filtered as non-contract related">>,
                      notes |-> <<"This query appears to be outside my contract analysis expertise">>]]
    ELSE IF ~idx
    THEN [raised |-> FALSE, trace |-> AskNoTrace,
          result |-> [error |-> Unavailable, risky_clauses |-> <<>>,
                      missing_protections |-> <<>>, overall_risk_score |-> 0,
                      summary |-> <<"Vector database connection unavailable">>,
                      notes |-> <<"Please try again in a few moments">>]]
    ELSE
    LET r == _retrieve_relevant_chunks(st, idx, query, AskTopK, f)
        relevant_chunks == r.chunks
        t == [AskNoTrace EXCEPT !.embed_calls = r.embed_calls, !.queries = r.queries,
                                !.retrieval_failed = r.failed, !.llm_calls = 1,
                                !.matches = Len(relevant_chunks)]
    IN
    IF relevant_chunks = <<>>
    THEN [raised |-> FALSE, trace |-> t, result |-> _get_global_best_practices_response(f.llm)]
    ELSE IF f.llm.kind = "raise"
    THEN [raised |-> FALSE, trace |-> t,
          result |-> AskFailure("Analysis failed", "Contract analysis could not be completed")]
    ELSE IF f.llm.kind = "empty"
    THEN [raised |-> FALSE, trace |-> t,
          result |-> AskFailure("Analysis failed", "Contract analysis could not be completed")]
    ELSE IF f.llm.kind = "badjson"
    THEN [raised |-> FALSE, trace |-> t,
          result |-> AskFailure("Failed to parse AI response", "Analysis parsing failed")]
    ELSE IF ClampRaises(f.llm)
    THEN [raised |-> FALSE, trace |-> t,
          result |-> AskFailure("Analysis failed", "Contract analysis could not be completed")]
    ELSE [raised |-> FALSE, trace |-> t,
          result |-> _format_analysis_response_with_citations(f.llm.data, relevant_chunks)]

-----------------------------------------------------------------------------
(* Spec: calls to one service instance *)

\* the token windows the service is run with
ServiceWindows == {<<2, 1>>}

Filenames == {"f1", "f2"}
Emails == {None, "u1"}

\* the texts uploaded, as token sequences
Texts == {<<>>, <<1>>, <<1, 2>>, <<1, WS>>, <<2, 1>>, <<1, 1, 1>>, <<SPECIAL>>}

\* the ordinals at which a call to the store may raise
FaultAt == {1, 2}

NoFault == [fetch |-> {}, embed |-> FALSE, query |-> 0, upsert |-> 0]

\* the calls that raise during one upload: some of the fetches, and then at
\* most one of the embedding call, a query and an upsert
UploadFaults ==
    {[NoFault EXCEPT !.fetch = ff] : ff \in {{}, {1}, {2}, {1, 2}}}
    \cup {[NoFault EXCEPT !.fetch = ff, !.embed = TRUE] : ff \in {{}, {1}}}
    \cup {[NoFault EXCEPT !.fetch = ff, !.query = k] : ff \in {{}, {1}}, k \in FaultAt}
    \cup {[NoFault EXCEPT !.fetch = ff, !.upsert = k] : ff \in {{}, {1}}, k \in FaultAt}

\* what the chat completion does: raises, answers nothing, answers text that
\* is no JSON, or answers a JSON object (whose overall_risk_score, when
\* score_is_number is false, is no number)
LLMAnswers ==
    {[kind |-> "raise"], [kind |-> "empty"], [kind |-> "badjson"]}
    \cup {[kind |-> "json", score_is_number |-> TRUE, data |-> d] :
            d \in {[summary |-> <<NoDocsPrefix, "general guidance">>, overall_risk_score |-> 0],
                   [summary |-> <<"general guidance">>, overall_risk_score |-> 12],
                   [summary |-> <<"general guidance">>],
                   [overall_risk_score |-> 5]}}
    \cup {[kind |-> "json", score_is_number |-> FALSE,
           data |-> [summary |-> <<"general guidance">>, overall_risk_score |-> 0]]}

Queries ==
    {[words |-> <<"weather">>, tokens |-> <<2>>],
     [words |-> <<"Weather", "contract">>, tokens |-> <<2, 1>>],
     [words |-> <<"liability">>, tokens |-> <<1>>],
     [words |-> <<"translate">>, tokens |-> <<2>>],
     [words |-> <<"sometimes", "liability">>, tokens |-> <<1, 2>>]}

\* the retrieval answers, or its embedding call raises, or its query raises
AskFaults ==
    {[embed |-> e[1], query |-> e[2], llm |-> a] :
        e \in {<<FALSE, 0>>, <<TRUE, 0>>, <<FALSE, 1>>}, a \in LLMAnswers}

\* what the next call keeps of the call before it
Summary(o) ==
    IF o.name = "upload"
    THEN [name |-> "upload", text |-> o.text, filename |-> o.filename,
          status |-> o.result.status, n_chunks |-> o.trace.n_chunks,
          fresh |-> o.store_before = <<>>,
          committed |-> \E k \in DOMAIN o.trace.upserts : o.trace.upserts[k].ok,
          faulty |-> o.trace.fetch_raised \/ o.trace.embed_raised
                       \/ o.trace.query_raised \/ o.trace.chunk_raised
                       \/ \E k \in DOMAIN o.trace.upserts : ~o.trace.upserts[k].ok]
    ELSE IF o.name = "mem_upload"
    THEN [name |-> "mem_upload", status |-> o.result.status]
    ELSE [name |-> o.name]

Init ==
    /\ c_pc = "idle"
    /\ c_in = <<>>
    /\ c_out = <<>>
    /\ index \in BOOLEAN
    /\ indexes = (IF index THEN {IndexName} ELSE {})
    /\ \E w \in ServiceWindows : chunk_size = w[1] /\ overlap = w[2]
    /\ store = <<>>
    /\ clock = 0
    /\ uploads = <<>>
    /\ mem = MemEmpty
    /\ op = NoOp
    /\ prev = NoOp

UploadWith(texts, filenames, faults) ==
    /\ clock < MaxOps
    /\ \E text \in texts, filename \in filenames, email \in Emails, f \in faults :
         LET r == upload_contract(store, index, chunk_size, overlap, clock + 1,
                                  text, filename, email, None, None, f)
         IN /\ store' = r.store
            /\ op' = [name |-> "upload", text |-> text, filename |-> filename,
                      email |-> email, index |-> index, store_before |-> store,
                      raised |-> r.raised, result |-> r.result, trace |-> r.trace]
    /\ prev' = Summary(op)
    /\ clock' = clock + 1
    /\ UNCHANGED <<index, indexes, chunk_size, overlap, uploads, chunkVars, mem>>

Upload == UploadWith(Texts, Filenames, UploadFaults)

Ask ==
    /\ clock < MaxOps
    /\ \E query \in Queries, f \in AskFaults :
         LET r == ask_contract(store, index, query, f)
         IN op' = [name |-> "ask", query |-> query, index |-> index, store_before |-> store,
                   llm |-> f.llm,
                   raised |-> r.raised, result |-> r.result, trace |-> r.trace]
    /\ prev' = Summary(op)
    /\ clock' = clock + 1
    /\ UNCHANGED <<index, indexes, chunk_size, overlap, store, uploads, chunkVars, mem>>

Next == Upload \/ Ask

Spec == Init /\ [][Next]_vars

-----------------------------------------------------------------------------
(* BatchSpec: uploads of a document whose chunks fill more than one batch *)

\* LongLen distinct tokens: every chunk of it has a hash of its own
LongText == [k \in 1..LongLen |-> k + 2]

\* the long document with its last two tokens replaced by other wordings of
\* its first two: its chunk 100 reads nearly the same as its chunk 0
RepetitiveText ==
    [k \in 1..LongLen |-> IF k > LongLen - 2 THEN k - (LongLen - 2) + 2 + VariantBase
                          ELSE k + 2]

\* the texts uploaded in BatchSpec
LongTexts == {LongText, RepetitiveText, <<1>>, <<SPECIAL>>}

\* the long document goes under one name: a second copy under another name
\* would cost one query per chunk against every stored record
LongFilenames == {"f1"}

UploadLong == UploadWith(LongTexts, LongFilenames, UploadFaults)

BatchNext == UploadLong

BatchSpec == Init /\ [][BatchNext]_vars

-----------------------------------------------------------------------------
(* RestartSpec: the service constructed again over the same Pinecone account *)

\* the call of the constructor that raises: none, Pinecone(api_key=...),
\* list_indexes (also what a rejected key does), create_index, Index(name),
\* describe_index_stats
InitFaults == {"none", "client", "list", "create", "connect", "stats"}

InitNoTrace == [list_calls |-> 0, create_calls |-> 0, caught |-> FALSE]

\* the end of _initialize_pinecone: self.index = Index(name), then the stats
Connect(idxs, st, fault, trace) ==
    IF fault \in {"connect", "stats"}
    THEN [index |-> FALSE, indexes |-> idxs, store |-> st, raised |-> FALSE,
          trace |-> [trace EXCEPT !.caught = TRUE]]
    ELSE [index |-> TRUE, indexes |-> idxs, store |-> st, raised |-> FALSE, trace |-> trace]

\* create_index called without a look at the list; the provider refuses to
\* create an index whose name is taken
InitializeAlwaysCreates(idxs, st, key, fault) ==
    IF ~key
    THEN [index |-> FALSE, indexes |-> idxs, store |-> st, raised |-> FALSE,
          trace |-> InitNoTrace]
    ELSE IF fault \in {"client", "list", "create"} \/ IndexName \in idxs
    THEN [index |-> FALSE, indexes |-> idxs, store |-> st, raised |-> FALSE,
          trace |-> [InitNoTrace EXCEPT !.create_calls = IF fault = "client" THEN 0 ELSE 1,
                                        !.caught = TRUE]]
    ELSE Connect(idxs \cup {IndexName}, <<>>, fault,
                 [InitNoTrace EXCEPT !.create_calls = 1])

\* __init__ with _initialize_pinecone.  idxs: the names the account holds,
\* st: the records of the index IndexName, key: PINECONE_API_KEY is set.
\* raised: an exception leaves the constructor (the except clause lets none)
_initialize_pinecone(idxs, st, key, fault) ==
    IF ~key
    THEN [index |-> FALSE, indexes |-> idxs, store |-> st, raised |-> FALSE,
          trace |-> InitNoTrace]
    ELSE IF fault = "client"
    THEN [index |-> FALSE, indexes |-> idxs, store |-> st, raised |-> FALSE,
          trace |-> [InitNoTrace EXCEPT !.caught = TRUE]]
    ELSE IF fault = "list"
    THEN [index |-> FALSE, indexes |-> idxs, store |-> st, raised |-> FALSE,
          trace |-> [InitNoTrace EXCEPT !.list_calls = 1, !.caught = TRUE]]
    ELSE IF IndexName \notin idxs
    THEN IF fault = "create"
         THEN [index |-> FALSE, indexes |-> idxs, store |-> st, raised |-> FALSE,
               trace |-> [InitNoTrace EXCEPT !.list_calls = 1, !.create_calls = 1,
                                             !.caught = TRUE]]
         ELSE Connect(idxs \cup {IndexName}, <<>>, fault,
                      [InitNoTrace EXCEPT !.list_calls = 1, !.create_calls = 1])
    ELSE Connect(idxs, st, fault, [InitNoTrace EXCEPT !.list_calls = 1])

\* the service process is started again
Initialize ==
    /\ clock < MaxOps
    /\ \E key \in BOOLEAN, fault \in InitFaults :
         LET r == _initialize_pinecone(indexes, store, key, fault)
         IN /\ index' = r.index
            /\ indexes' = r.indexes
            /\ store' = r.store
            /\ op' = [name |-> "init", key |-> key, fault |-> fault,
                      index_before |-> index, indexes_before |-> indexes,
                      store_before |-> store, raised |-> r.raised, trace |-> r.trace]
    /\ prev' = Summary(op)
    /\ clock' = clock + 1
    /\ UNCHANGED <<chunk_size, overlap, uploads, chunkVars, mem>>

RestartTexts == {<<1>>, <<1, 2>>}

RestartFaults == {NoFault, [NoFault EXCEPT !.upsert = 1]}

UploadSome == UploadWith(RestartTexts, Filenames, RestartFaults)

RestartNext == UploadSome \/ Initialize

RestartSpec == Init /\ [][RestartNext]_vars

-----------------------------------------------------------------------------
(* ConcSpec: upload_contract calls interleaved.  A call reads the store in  *)
(* _check_existing_chunks, again in _similarity_deduplication_check, and    *)
(* writes it in the upsert loop; calls of other uploaders (other requests   *)
(* of the event loop, suspended at the await of the embeddings, or other    *)
(* processes on the same index) run between these three steps.             *)

Uploaders == 1..MaxUploaders

ConcTexts == {<<1>>, <<1, 1, 1>>}

\* the email each uploader passes
UploaderEmail(p) == IF p = 1 THEN "u1" ELSE IF p = 2 THEN "u2" ELSE "u3"

IdleUpload ==
    [pc |-> "idle", text |-> <<>>, filename |-> "", hashes |-> <<>>,
     new_chunks |-> <<>>, vectors |-> <<>>, wrote |-> FALSE]

ConcInit ==
    /\ c_pc = "idle"
    /\ c_in = <<>>
    /\ c_out = <<>>
    /\ index = TRUE
    /\ indexes = {IndexName}
    /\ \E w \in ServiceWindows : chunk_size = w[1] /\ overlap = w[2]
    /\ store = <<>>
    /\ clock = 0
    /\ uploads = [p \in Uploaders |-> IdleUpload]
    /\ mem = MemEmpty
    /\ op = NoOp
    /\ prev = NoOp

\* upload_contract up to the await of the embeddings: chunking and the hash
\* check; the call returns here when no chunk is new
BeginUpload(p) ==
    /\ uploads[p].pc = "idle"
    /\ \E text \in ConcTexts, filename \in Filenames :
         LET chunks == _chunk_document(text, filename, chunk_size, overlap)
             chunk_hashes == [j \in DOMAIN chunks |-> chunks[j].chunk_hash]
             existing_hashes == _check_existing_chunks(store, index, chunk_hashes, {})
             new_pos == {j \in DOMAIN chunks :
                           chunks[j].chunk_hash \notin Range(existing_hashes)}
             new_chunks == FilterIdx(chunks, new_pos)
         IN uploads' = [uploads EXCEPT ![p] =
                           [IdleUpload EXCEPT
                               !.pc = IF new_chunks = <<>> THEN "done" ELSE "embedding",
                               !.text = text, !.filename = filename,
                               !.hashes = chunk_hashes, !.new_chunks = new_chunks]]
    /\ op' = [name |-> "step", uploader |-> p, step |-> "check"]
    /\ UNCHANGED <<index, indexes, chunk_size, overlap, store, clock, prev, chunkVars, mem>>

\* the embeddings arrive: similarity check and the vectors list; the call
\* returns here when every new chunk is a near-duplicate
DedupUpload(p) ==
    /\ uploads[p].pc = "embedding"
    /\ LET new_chunks == uploads[p].new_chunks
           chunk_texts == [j \in DOMAIN new_chunks |-> new_chunks[j].text]
           embeddings == _get_embeddings(chunk_texts, FALSE).embeddings
           check == _similarity_deduplication_check(store, index, embeddings, Threshold, 0)
           keep == {j \in DOMAIN new_chunks : (j - 1) \notin Range(check.dups)}
           final_chunks == FilterIdx(new_chunks, keep)
           final_embeddings == FinalEmbeddings(embeddings, check.dups)
           vectors == MkVectors(final_chunks, final_embeddings, uploads[p].filename,
                                UploaderEmail(p), None, None, clock + 1)
       IN uploads' = [uploads EXCEPT ![p].pc = IF Len(final_chunks) = 0 THEN "done"
                                                ELSE "upserting",
                                     ![p].vectors = vectors]
    /\ clock' = clock + 1
    /\ op' = [name |-> "step", uploader |-> p, step |-> "dedup"]
    /\ UNCHANGED <<index, indexes, chunk_size, overlap, store, prev, chunkVars, mem>>

\* the upsert loop
WriteUpload(p) ==
    /\ uploads[p].pc = "upserting"
    /\ store' = UpsertLoop(store, uploads[p].vectors, 0, 0, <<>>).store
    /\ uploads' = [uploads EXCEPT ![p].pc = "done", ![p].wrote = TRUE]
    /\ op' = [name |-> "step", uploader |-> p, step |-> "upsert"]
    /\ UNCHANGED <<index, indexes, chunk_size, overlap, clock, prev, chunkVars, mem>>

ConcNext == \E p \in Uploaders : BeginUpload(p) \/ DedupUpload(p) \/ WriteUpload(p)

ConcSpec == ConcInit /\ [][ConcNext]_vars

-----------------------------------------------------------------------------
(* RetrieveSpec: _retrieve_relevant_chunks applied to drawn stores          *)

\* the store after one more failure-free upload
UploadedStore(st, text, filename, now) ==
    LET w == CHOOSE w \in ServiceWindows : TRUE
    IN upload_contract(st, TRUE, w[1], w[2], now, text, filename, None, None, None, NoFault).store

Store1 == UploadedStore(<<>>, <<1>>, "f1", 1)
Store3 == UploadedStore(<<>>, <<1, 2, 3>>, "f1", 1)
Store9 == UploadedStore(<<>>, <<1, 2, 3, 4, 5, 6, 7, 8, 9>>, "f1", 1)
Store11 == UploadedStore(Store9, <<2, 1>>, "f2", 2)

\* the stores queried: 0, 1, 3, 9 and 11 records
RetrieveStores == {<<>>, Store1, Store3, Store9, Store11}

\* the k asked for: among them the default of the function and ask_contract's
RetrieveKs == {1, 3, 5, AskTopK}

RetrieveQueries ==
    {[words |-> <<"liability">>, tokens |-> t] :
        t \in {<<1>>, <<1, 2>>, <<2, 1>>, <<9>>, <<7, 8>>}}

RetrieveFaults ==
    {[embed |-> e[1], query |-> e[2]] : e \in {<<FALSE, 0>>, <<TRUE, 0>>, <<FALSE, 1>>}}

RetrieveInputs ==
    {[store |-> st, index |-> idx, query |-> q, k |-> k, fault |-> f] :
        st \in RetrieveStores, idx \in BOOLEAN, q \in RetrieveQueries,
        k \in RetrieveKs, f \in RetrieveFaults}

RetrieveInit ==
    /\ c_pc = "query"
    /\ c_in \in RetrieveInputs
    /\ c_out = <<>>
    /\ ServiceIdle

Retrieve ==
    /\ c_pc = "query"
    /\ c_pc' = "retrieved"
    /\ c_out' = _retrieve_relevant_chunks(c_in.store, c_in.index, c_in.query, c_in.k, c_in.fault)
    /\ UNCHANGED <<c_in, serviceVars>>

RetrieveNext == Retrieve

RetrieveSpec == RetrieveInit /\ [][RetrieveNext]_vars

-----------------------------------------------------------------------------
(* DedupSpec: _similarity_deduplication_check applied to drawn stores       *)

\* the lists of texts whose embeddings are checked: among them texts that
\* are stored, stored in another order of tokens, in another wording, and
\* with white space around them
DedupTextLists ==
    {<<>>, <<<<1>>>>, <<<<2, 1>>, <<1, 2>>>>, <<<<2, 1>>, <<1, WS>>, <<5>>>>,
     <<<<7>>, <<VariantBase + 1, 2>>, <<3, 2>>>>, <<<<1, 2>>, <<1, 2>>>>,
     <<<<4, 3>>, <<8, 7>>>>, <<<<9>>, <<9, WS>>, <<WS, 9>>>>}

\* the ordinal of the query that raises (0: none)
DedupFaults == {0, 1, 2, 3}

DedupInputs ==
    {[store |-> st, index |-> idx, texts |-> l, fault |-> f] :
        st \in RetrieveStores, idx \in BOOLEAN, l \in DedupTextLists, f \in DedupFaults}

DedupInit ==
    /\ c_pc = "embedded"
    /\ c_in \in DedupInputs
    /\ c_out = <<>>
    /\ ServiceIdle

Dedup ==
    /\ c_pc = "embedded"
    /\ c_pc' = "deduped"
    /\ c_out' = _similarity_deduplication_check(c_in.store, c_in.index,
                     _get_embeddings(c_in.texts, FALSE).embeddings, Threshold, c_in.fault)
    /\ UNCHANGED <<c_in, serviceVars>>

DedupNext == Dedup

DedupSpec == DedupInit /\ [][DedupNext]_vars

-----------------------------------------------------------------------------
(* ConfigSpec: the window of a service instance set to other values.  The   *)
(* constructor takes no argument and writes 800 and 100 into two plain      *)
(* attributes; a deployment with another window assigns them, and no code   *)
(* of the class looks at them before the loop of _chunk_document does.      *)

\* the windows assigned: the shipped one, a small valid one, overlap equal
\* to chunk_size, overlap above chunk_size
ConfigWindows == {<<DefaultChunkSize, DefaultOverlap>>, <<2, 1>>, <<2, 2>>, <<1, 2>>}

ConfigTexts == {<<>>, <<1>>, <<1, 2>>, <<1, 2, 3>>, <<SPECIAL>>}

ConfigFaults == {NoFault, [NoFault EXCEPT !.embed = TRUE], [NoFault EXCEPT !.upsert = 1]}

\* service.chunk_size = ...; service.overlap = ...
Configure ==
    /\ clock < MaxOps
    /\ \E w \in ConfigWindows :
         /\ chunk_size' = w[1]
         /\ overlap' = w[2]
         /\ op' = [name |-> "configure", chunk_size |-> w[1], overlap |-> w[2],
                   raised |-> FALSE]
    /\ prev' = Summary(op)
    /\ clock' = clock + 1
    /\ UNCHANGED <<index, indexes, store, uploads, chunkVars, mem>>

UploadConfigured == UploadWith(ConfigTexts, Filenames, ConfigFaults)

ConfigNext == Configure \/ UploadConfigured

ConfigSpec == Init /\ [][ConfigNext]_vars

-----------------------------------------------------------------------------
(* RepeatSpec: uploads of documents in which a chunk text occurs twice      *)

\* <<1, 1, 1, 2>> has the chunks <<1, 1>>, <<1, 1>>, <<1, 2>>, <<2>>: the first
\* two share one hash, which <<1, 1>> and <<1, 1, 1>> store as well
RepeatTexts == {<<1>>, <<1, 1>>, <<1, 1, 1>>, <<1, 1, 1, 2>>}

RepeatFilenames == {"f1"}

UploadRepeated == UploadWith(RepeatTexts, RepeatFilenames, UploadFaults)

RepeatNext == UploadRepeated

RepeatSpec == Init /\ [][RepeatNext]_vars

-----------------------------------------------------------------------------
(* MemSpec: services/rag_service.py, class RAGService.  The FAISS index is  *)
(* the list of the vectors added, a position of a search result being the  *)
(* 0-based rank of the vector in that list; document_chunks and            *)
(* document_metadata are the two Python lists.  A text is the sequence of  *)
(* its characters, one token each.                                          *)

\* self.chunk_size and self.overlap (1000 and 100 characters as shipped),
\* scaled down
MemWindow == <<2, 1>>

\* faiss.normalize_L2: the vector scaled to length 1, its direction kept
Normalize(vec) == [unit |-> vec]

\* IndexFlatIP: the inner product of two normalized vectors, their cosine
InnerProduct(u, v) == Score(u.unit, v.unit)

\* RAGService._chunk_document: windows of characters
rag_chunk_document(text, filename, size, ov) ==
    LET starts == PyRange(0, Len(text), size - ov)
    IN [j \in DOMAIN starts |->
          LET i == starts[j]
              chunk_end == Min(i + size, Len(text))
              chunk_text == Slice(text, i, chunk_end)
          IN [text        |-> chunk_text,
              filename    |-> filename,
              chunk_index |-> j - 1,
              char_count  |-> Len(chunk_text),
              start_char  |-> i,
              end_char    |-> chunk_end,
              token_count |-> Len(chunk_text)]]

\* the entries document_metadata.extend() appends for the chunks
RagMetadata(chunks, start_idx, filename, email, jurisdiction, contract_type, now) ==
    [j \in DOMAIN chunks |->
        [filename      |-> filename,
         chunk_index   |-> j - 1,
         global_index  |-> start_idx + j - 1,
         email         |-> email,
         jurisdiction  |-> jurisdiction,
         contract_type |-> contract_type,
         upload_time   |-> now]]

RagError(m, cause) ==
    [mem |-> m, result |-> [status |-> "error", error |-> <<"Failed to upload contract", cause>>]]

\* the two lists extended before the embeddings are asked for
RagUploadStoresFirst(m, text, filename, email, jurisdiction, contract_type, now, f) ==
    IF EncodeRaises(text) THEN RagError(m, "chunking")
    ELSE
    LET chunks == rag_chunk_document(text, filename, MemWindow[1], MemWindow[2])
        chunk_texts == [j \in DOMAIN chunks |-> chunks[j].text]
        stored == [m EXCEPT !.document_chunks = @ \o chunks,
                            !.document_metadata = @ \o RagMetadata(chunks, Len(m.document_chunks),
                                   filename, email, jurisdiction, contract_type, now)]
    IN IF f.embed \/ chunk_texts = <<>>
       THEN RagError(stored, "Failed to generate embeddings")
       ELSE [mem |-> [stored EXCEPT !.index =
                         [built |-> TRUE,
                          vectors |-> m.index.vectors
                                        \o [j \in DOMAIN chunk_texts |-> Normalize(Embed(chunk_texts[j]))]]],
             result |-> [status |-> "success", filename |-> filename,
                         chunks_created |-> Len(chunks), total_tokens |-> SumTokens(chunks),
                         index_size |-> Len(m.index.vectors) + Len(chunks)]]

\* RAGService.upload_contract.  f.embed: the embeddings call raises;
\* f.accepts_empty: the embeddings API answers an empty input list with an
\* empty data list (it raises otherwise).  The result carries the state the
\* call leaves behind
rag_upload_contract(m, text, filename, email, jurisdiction, contract_type, now, f) ==
    IF EncodeRaises(text) THEN RagError(m, "chunking")
    ELSE
    LET chunks == rag_chunk_document(text, filename, MemWindow[1], MemWindow[2])
        chunk_texts == [j \in DOMAIN chunks |-> chunks[j].text]
    IN
    IF f.embed \/ (chunk_texts = <<>> /\ ~f.accepts_empty)
    THEN RagError(m, "Failed to generate embeddings")
    ELSE
    LET embeddings == [j \in DOMAIN chunk_texts |-> Embed(chunk_texts[j])]
    IN
    \* embeddings.shape[1] of an array without rows raises IndexError
    IF ~m.index.built /\ embeddings = <<>> THEN RagError(m, "tuple index out of range")
    ELSE
    LET embeddings_normalized == [j \in DOMAIN embeddings |-> Normalize(embeddings[j])]
        start_idx == Len(m.document_chunks)
        extended == [index |-> [built |-> TRUE, vectors |-> m.index.vectors],
                     document_chunks |-> m.document_chunks \o chunks,
                     document_metadata |-> m.document_metadata
                        \o RagMetadata(chunks, start_idx, filename, email,
                                       jurisdiction, contract_type, now)]
    IN
    \* an array without rows is reshaped to one row of length 0, which
    \* index.add() refuses
    IF embeddings = <<>> THEN RagError(extended, "dimension")
    ELSE [mem |-> [extended EXCEPT !.index.vectors = @ \o embeddings_normalized],
          result |-> [status |-> "success", filename |-> filename,
                      chunks_created |-> Len(chunks), total_tokens |-> SumTokens(chunks),
                      index_size |-> Len(m.index.vectors) + Len(embeddings_normalized)]]

\* index.search(query, k): the positions (0-based) of the k vectors with the
\* highest inner product, by descending score
RECURSIVE RagSearch(_, _, _, _)
RagSearch(vectors, positions, q, k) ==
    IF k = 0 \/ positions = {} THEN <<>>
    ELSE LET best == SetMax({InnerProduct(vectors[p], q) : p \in positions})
             hit  == CHOOSE p \in positions : InnerProduct(vectors[p], q) = best
         IN <<[idx |-> hit - 1, score |-> best]>> \o RagSearch(vectors, positions \ {hit}, q, k - 1)

\* RAGService._retrieve_relevant_chunks: an exception of the try block is
\* raised again as "Failed to retrieve chunks"
rag_retrieve_relevant_chunks(m, query, k, f) ==
    IF ~m.index.built \/ Len(m.index.vectors) = 0
    THEN [raised |-> FALSE, chunks |-> <<>>, hits |-> <<>>]
    ELSE IF f.embed THEN [raised |-> TRUE, chunks |-> <<>>, hits |-> <<>>]
    ELSE LET q == Normalize(Embed(query))
             k1 == Min(k, Len(m.index.vectors))
             found == RagSearch(m.index.vectors, DOMAIN m.index.vectors, q, k1)
             kept == FilterIdx(found, {h \in DOMAIN found :
                                          found[h].idx < Len(m.document_chunks)})
         IN [raised |-> FALSE, hits |-> found,
             chunks |-> [h \in DOMAIN kept |->
                            [text        |-> m.document_chunks[kept[h].idx + 1].text,
                             filename    |-> m.document_chunks[kept[h].idx + 1].filename,
                             chunk_index |-> m.document_chunks[kept[h].idx + 1].chunk_index,
                             char_count  |-> m.document_chunks[kept[h].idx + 1].char_count,
                             start_char  |-> m.document_chunks[kept[h].idx + 1].start_char,
                             end_char    |-> m.document_chunks[kept[h].idx + 1].end_char,
                             token_count |-> m.document_chunks[kept[h].idx + 1].token_count,
                             relevance_score |-> kept[h].score]]]

MemTexts == {<<>>, <<1, 2>>, <<1, 2, 3>>, <<SPECIAL>>}

MemFaults ==
    {[embed |-> FALSE, accepts_empty |-> FALSE], [embed |-> TRUE, accepts_empty |-> FALSE],
     [embed |-> FALSE, accepts_empty |-> TRUE]}

MemQueries == {<<1, 2>>, <<3>>}

\* the k asked for: one, and the default of the function
MemKs == {1, 5}

MemUpload ==
    /\ clock < MaxMemOps
    /\ \E text \in MemTexts, f \in MemFaults :
         LET r == rag_upload_contract(mem, text, "f1", None, None, None, clock + 1, f)
         IN /\ mem' = r.mem
            /\ op' = [name |-> "mem_upload", text |-> text, mem_before |-> mem,
                      fault |-> f, raised |-> FALSE, result |-> r.result]
    /\ prev' = Summary(op)
    /\ clock' = clock + 1
    /\ UNCHANGED <<index, indexes, chunk_size, overlap, store, uploads, chunkVars>>

MemRetrieve ==
    /\ clock < MaxMemOps
    /\ \E query \in MemQueries, k \in MemKs, e \in BOOLEAN :
         LET r == rag_retrieve_relevant_chunks(mem, query, k, [embed |-> e])
         IN op' = [name |-> "mem_retrieve", query |-> query, k |-> k, mem_before |-> mem,
                   raised |-> r.raised, chunks |-> r.chunks, hits |-> r.hits]
    /\ prev' = Summary(op)
    /\ clock' = clock + 1
    /\ UNCHANGED <<index, indexes, chunk_size, overlap, store, uploads, mem, chunkVars>>

MemNext == MemUpload \/ MemRetrieve

MemInit ==
    /\ c_pc = "idle"
    /\ c_in = <<>>
    /\ c_out = <<>>
    /\ ServiceIdle

MemSpec == MemInit /\ [][MemNext]_vars

-----------------------------------------------------------------------------
(* Properties of upload_contract and ask_contract (Spec)                    *)

\* the call op was an upload during which no call to the store or to the
\* embeddings API raised
CleanUpload ==
    /\ op.name = "upload"
    /\ op.index
    /\ ~op.trace.chunk_raised /\ ~op.trace.fetch_raised /\ ~op.trace.embed_raised
    /\ ~op.trace.query_raised
    /\ \A k \in DOMAIN op.trace.upserts : op.trace.upserts[k].ok

\* op repeats the upload before it: the same (filename, text), both clean,
\* the text giving at least one chunk
SecondUpload ==
    /\ CleanUpload
    /\ prev.name = "upload" /\ prev.status = "success" /\ ~prev.faulty
    /\ prev.n_chunks > 0
    /\ prev.filename = op.filename /\ prev.text = op.text

\* C1: when a clean upload repeats the clean, successful upload before it
\* with the same (filename, text), its result has chunks_created = 0 and
\* chunks_skipped_hash = N, N the number of chunks of the first upload.
C1_HashIdempotence ==
    SecondUpload =>
        /\ op.result.status = "success"
        /\ op.result.chunks_created = 0
        /\ "chunks_skipped_hash" \in DOMAIN op.result
        /\ op.result.chunks_skipped_hash = prev.n_chunks

\* C2: in a clean upload, the chunks that passed the hash check and have a
\* stored neighbour scoring above the threshold are not upserted and are
\* counted under chunks_skipped_similarity, also when they are all the new
\* chunks of the upload.
C2_NearDuplicateSuppression ==
    (CleanUpload /\ op.trace.near_dups # {}) =>
        /\ op.result.status = "success"
        /\ \A j \in op.trace.near_dups :
              \A k \in DOMAIN op.trace.upserts :
                 _generate_chunk_hash(op.trace.new_texts[j], op.filename)
                     \notin op.trace.upserts[k].ids
        /\ "chunks_skipped_similarity" \in DOMAIN op.result
        /\ op.result.chunks_skipped_similarity = Cardinality(op.trace.near_dups)

\* C3: when the embedding call or the store query of ask_contract raises, the
\* result carries an error and is not the global-fallback answer.
C3_RetrievalErrorSurfaced ==
    (op.name = "ask" /\ op.index /\ op.trace.retrieval_failed) =>
        /\ "error" \in DOMAIN op.result
        /\ "storage_type" \notin DOMAIN op.result

\* the summary says that no uploaded document was used
SummaryMarked(summary) == \E k \in DOMAIN summary : summary[k] = NoDocsPrefix

\* C4: an in-domain query whose retrieval worked and matched nothing gets a
\* result with retrieved_chunks = 0, no source documents and a summary marked
\* as using no uploaded documents, whatever the fallback completion did.
C4_FallbackTrigger ==
    (/\ op.name = "ask" /\ op.index /\ ~op.trace.filtered
     /\ ~op.trace.retrieval_failed /\ op.trace.matches = 0) =>
        /\ op.result.retrieved_chunks = 0
        /\ op.result.source_documents = {}
        /\ SummaryMarked(op.result.summary)

-----------------------------------------------------------------------------
(* Claims about _chunk_document (ChunkSpec) *)

c_T == Len(c_in.tokens)
c_n == Len(c_out)
c_step == c_in.chunk_size - c_in.overlap
Covered == UNION {c_out[j].start_token .. (c_out[j].end_token - 1) : j \in 1..c_n}

\* C5: chunk coverage.  For every token sequence of length T and every
\* chunk_size > overlap >= 0 the token ranges [start_token, end_token) of the
\* chunks cover exactly [0, T): the first chunk starts at 0, every later chunk
\* starts no later than the end of the one before and the last chunk ends
\* at T.
C5_ChunkCoverage ==
    c_pc = "done" =>
        /\ Covered = 0..(c_T - 1)
        /\ c_T > 0 => /\ c_n >= 1
                      /\ c_out[1].start_token = 0
                      /\ c_out[c_n].end_token = c_T
        /\ \A j \in 2..c_n : c_out[j].start_token <= c_out[j - 1].end_token

C5_Witness ==
    /\ c_pc = "done"
    /\ c_in.overlap > 0
    /\ c_n >= 3
    /\ c_out[c_n].token_count < c_in.chunk_size

TokenCountsOk ==
    \A j \in 1..c_n :
        /\ c_out[j].token_count = c_out[j].end_token - c_out[j].start_token
        /\ c_out[j].token_count <= c_in.chunk_size

\* C6 as claimed: every chunk has token_count = end_token - start_token <=
\* chunk_size, and chunk i+1 starts at the end of chunk i minus overlap, except
\* for the final chunk when it is shorter than the window.
C6_Original ==
    c_pc = "done" =>
        /\ TokenCountsOk
        /\ \A j \in 1..(c_n - 1) :
              \/ c_out[j + 1].start_token = c_out[j].end_token - c_in.overlap
              \/ j + 1 = c_n /\ c_out[c_n].token_count < c_in.chunk_size

\* C6 as amended: every chunk has token_count = end_token - start_token <=
\* chunk_size; chunk i+1 starts at the end of chunk i minus overlap whenever
\* chunk i is a full window; after a chunk shorter than the window the next one
\* shares fewer than overlap tokens with it (at least one); with
\* 2*overlap <= chunk_size only the final pair can share fewer.
C6_ChunkOverlap ==
    c_pc = "done" =>
        /\ TokenCountsOk
        /\ \A j \in 1..(c_n - 1) :
              LET shared == c_out[j].end_token - c_out[j + 1].start_token
              IN /\ c_out[j].token_count = c_in.chunk_size => shared = c_in.overlap
                 /\ c_out[j].token_count < c_in.chunk_size =>
                        /\ shared < c_in.overlap
                        /\ shared >= 1
                        /\ c_out[j + 1].token_count < c_in.chunk_size
                 /\ 2 * c_in.overlap <= c_in.chunk_size /\ j + 1 < c_n =>
                        shared = c_in.overlap

C6_Witness ==
    /\ c_pc = "done"
    /\ c_n >= 3
    /\ c_out[c_n - 1].token_count < c_in.chunk_size
    /\ c_out[c_n - 2].token_count < c_in.chunk_size

\* C7: window placement.  Chunk j (0-based) has chunk_index j and starts at
\* token j*(chunk_size - overlap); there are exactly as many chunks as window
\* starts below the token count; 2000 tokens with the window 800/100 give the
\* three chunks starting at 0, 700, 1400, the last of 600 tokens; the empty
\* text gives no chunk.
C7_WindowPlacement ==
    c_pc = "done" =>
        /\ \A j \in 1..c_n :
              /\ c_out[j].chunk_index = j - 1
              /\ c_out[j].start_token = (j - 1) * c_step
        /\ (c_n - 1) * c_step < c_T \/ c_n = 0
        /\ c_n * c_step >= c_T
        /\ c_T = 0 => c_out = <<>>
        /\ (c_T = 2000 /\ c_in.chunk_size = 800 /\ c_in.overlap = 100) =>
              /\ c_n = 3
              /\ <<c_out[1].start_token, c_out[2].start_token, c_out[3].start_token>>
                    = <<0, 700, 1400>>
              /\ c_out[3].token_count = 600

C7_Witness ==
    /\ c_pc = "done"
    /\ c_T = 2000
    /\ c_in.chunk_size = DefaultChunkSize
    /\ c_in.overlap = DefaultOverlap
    /\ c_n = 3

-----------------------------------------------------------------------------
(* Properties of upload_contract under failures (Spec, BatchSpec)           *)

\* C8: an upload whose embedding call raised ends with status "error", has
\* issued no upsert and leaves the store as it was.
C8_EmbeddingFailureAborts ==
    (op.name = "upload" /\ op.trace.embed_raised) =>
        /\ op.result.status = "error"
        /\ op.trace.upserts = <<>>
        /\ store = op.store_before

\* an embedding failure met with records already in the store
C8_Witness ==
    /\ op.name = "upload" /\ op.trace.embed_raised
    /\ op.store_before # <<>>
    /\ op.result.status = "error"

\* an embedding or upsert call raised during the upload op
TransientFailure ==
    /\ op.name = "upload"
    /\ \/ op.trace.embed_raised
       \/ \E k \in DOMAIN op.trace.upserts : ~op.trace.upserts[k].ok

\* C9: after an upload that ended with status "error" because an embedding
\* or upsert call raised, the store holds no record written by that upload
\* (its records carry the upload's time as upload_date).
C9_NoPartialCommit ==
    (TransientFailure /\ op.result.status = "error") =>
        \A id \in DOMAIN store : store[id].metadata.upload_date # clock

\* the upload op met one of the failures upload_contract answers for
UploadFailed ==
    \/ ~op.index
    \/ op.trace.chunk_raised
    \/ op.trace.embed_raised
    \/ \E k \in DOMAIN op.trace.upserts : ~op.trace.upserts[k].ok

\* C10: upload_contract never raises; a failed upload answers status "error"
\* with an error message, and an upload answering status "success" had every
\* upsert batch it issued succeed.
C10_UploadNeverRaises ==
    op.name = "upload" =>
        /\ ~op.raised
        /\ UploadFailed => (/\ op.result.status = "error"
                            /\ "error" \in DOMAIN op.result)
        /\ op.result.status = "success" =>
              \A k \in DOMAIN op.trace.upserts : op.trace.upserts[k].ok

\* the second upsert batch of an upload raised and the caller got the error
C10_Witness ==
    /\ op.name = "upload"
    /\ Len(op.trace.upserts) = 2
    /\ op.trace.upserts[1].ok /\ ~op.trace.upserts[2].ok
    /\ ~op.raised /\ op.result.status = "error"

-----------------------------------------------------------------------------
(* Properties of ask_contract (Spec)                                        *)

\* the call op was an ask_contract that met a failure: the query filtered,
\* the index handle absent, or the chat completion raising, answering
\* nothing, answering no JSON or a risk score that is no number
AskFailed ==
    /\ op.name = "ask"
    /\ \/ op.trace.filtered
       \/ ~op.index
       \/ op.llm.kind # "json"
       \/ ClampRaises(op.llm)

\* C11: ask_contract never raises; its result always carries risky_clauses,
\* missing_protections, overall_risk_score and summary, and on the failure
\* paths the two lists are empty and overall_risk_score is 0.
C11_AskNeverRaises ==
    op.name = "ask" =>
        /\ ~op.raised
        /\ {"risky_clauses", "missing_protections", "overall_risk_score", "summary"}
               \subseteq DOMAIN op.result
        /\ AskFailed => /\ op.result.risky_clauses = <<>>
                        /\ op.result.missing_protections = <<>>
                        /\ op.result.overall_risk_score = 0

\* chunks were retrieved and the completion's answer could not be parsed
C11_Witness ==
    /\ op.name = "ask"
    /\ op.trace.matches > 0
    /\ op.llm.kind = "badjson"
    /\ ~op.raised
    /\ op.result.error = "Failed to parse AI response"

\* the words of the query of the call op
q_words == op.query.words

\* C12: a query containing a non-contract indicator and no contract keyword
\* gets the fixed purpose-statement result (error FILTERED_NON_CONTRACT_QUERY)
\* with no embedding call, no store call and no completion call made, also
\* when the index handle is absent; a query containing a contract keyword is
\* never filtered.
C12_FilterShortCircuit ==
    op.name = "ask" =>
        /\ (/\ ContainsAny(q_words, non_contract_indicators)
            /\ ~ContainsAny(q_words, contract_keywords)) =>
               /\ op.result.error = "FILTERED_NON_CONTRACT_QUERY"
               /\ "purpose_statement" \in DOMAIN op.result
               /\ op.trace.embed_calls = 0
               /\ op.trace.queries = 0
               /\ op.trace.llm_calls = 0
        /\ ContainsAny(q_words, contract_keywords) =>
               /\ "purpose_statement" \notin DOMAIN op.result
               /\ "error" \in DOMAIN op.result =>
                      op.result.error # "FILTERED_NON_CONTRACT_QUERY"

\* a filtered query met with the index handle absent
C12_Witness ==
    /\ op.name = "ask"
    /\ ~op.index
    /\ q_words = <<"sometimes", "liability">>
    /\ op.result.error = "FILTERED_NON_CONTRACT_QUERY"

-----------------------------------------------------------------------------
(* Properties of the constructor (RestartSpec)                              *)

\* C13: a start of the service calls create_index only when IndexName is not
\* among the account's indexes; when it is, the index is reused: its records
\* are the same after the start as before, it is still listed, and the
\* service holds its handle unless a call of the constructor raised.
C13_IndexCreationIdempotent ==
    op.name = "init" =>
        /\ op.trace.create_calls > 0 => IndexName \notin op.indexes_before
        /\ IndexName \in op.indexes_before =>
              /\ store = op.store_before
              /\ indexes = op.indexes_before
              /\ (op.key /\ op.fault = "none") => index

\* a restart over an index that holds records
C13_Witness ==
    /\ op.name = "init"
    /\ op.key /\ op.fault = "none"
    /\ op.store_before # <<>>
    /\ op.trace.list_calls = 1 /\ op.trace.create_calls = 0
    /\ index /\ store = op.store_before

\* C14: when PINECONE_API_KEY is missing or the provider rejects it at the
\* start, the constructor fails: an exception leaves it.
C14_ConfigurationErrorFatal ==
    (op.name = "init" /\ (~op.key \/ op.fault = "list")) => op.raised

-----------------------------------------------------------------------------
(* Properties of concurrent uploads (ConcSpec)                              *)

\* every uploader has returned
AllDone == \A p \in Uploaders : uploads[p].pc = "done"

\* every uploader uploaded the same (filename, text)
SameDocument ==
    \A p \in Uploaders : /\ uploads[p].text = uploads[1].text
                          /\ uploads[p].filename = uploads[1].filename

\* C15: under every interleaving of the uploads a record's id is the hash
\* of its own (filename, text), so that no content is held under two ids, and
\* once uploads of the same (filename, text) have all returned the store
\* holds exactly one record for each distinct chunk hash of that document.
C15_ConcurrentUploadsSafe ==
    /\ \A id \in DOMAIN store :
          id = _generate_chunk_hash(store[id].metadata.text, store[id].metadata.filename)
    /\ (AllDone /\ SameDocument) =>
          DOMAIN store = Range(uploads[1].hashes)

\* two uploads of one document that both went through their upsert
C15_Witness ==
    /\ AllDone /\ SameDocument
    /\ uploads[1].wrote /\ uploads[2].wrote
    /\ Len(uploads[1].hashes) = 3

-----------------------------------------------------------------------------
(* Properties of repeated uploads (BatchSpec, Spec)                         *)

\* op is a clean, successful retry of the upload before it, which began on
\* an empty store and failed after committing some of its upsert batches
RetryAfterPartialCommit ==
    /\ CleanUpload
    /\ op.result.status = "success"
    /\ prev.name = "upload" /\ prev.status = "error"
    /\ prev.fresh /\ prev.committed
    /\ prev.filename = op.filename /\ prev.text = op.text

\* C16: after an upload that failed with some upsert batches committed and
\* a successful retry of the same (filename, text), the ids in the store are
\* those a single failure-free upload of the document writes: its chunk
\* hashes.
C16_RetryIdempotent ==
    RetryAfterPartialCommit => DOMAIN store = Range(op.trace.hashes)

\* C17: a record that is in the store when a call begins is in the store
\* when the call has returned, with the same vector and the same metadata.
C17_StoredChunksImmutable ==
    op.name \in {"upload", "ask"} =>
        \A id \in DOMAIN op.store_before :
            /\ id \in DOMAIN store
            /\ store[id] = op.store_before[id]

-----------------------------------------------------------------------------
(* Properties of _retrieve_relevant_chunks (RetrieveSpec)                   *)

\* the similarity of a stored record to the query of the run
r_score(id) == Score(c_in.store[id].values, Embed(c_in.query.tokens))

\* the ids of the records returned
r_ids == {_generate_chunk_hash(c_out.chunks[m].text, c_out.chunks[m].filename) :
             m \in DOMAIN c_out.chunks}

\* C18: retrieval returns at most k chunks, exactly min(k, number of stored
\* records) when its calls succeed; the chunks are distinct stored records
\* with their similarity to the query as relevance_score, in descending order
\* of that score, and no record left out scores higher than one returned.
C18_RetrievalOrder ==
    c_pc = "retrieved" =>
        LET chunks == c_out.chunks
            n == Len(chunks)
        IN /\ n <= c_in.k
           /\ (c_in.index /\ ~c_out.failed) =>
                  n = Min(c_in.k, Cardinality(DOMAIN c_in.store))
           /\ \A m \in 1..(n - 1) :
                  chunks[m].relevance_score >= chunks[m + 1].relevance_score
           /\ Cardinality(r_ids) = n
           /\ \A m \in 1..n :
                  LET id == _generate_chunk_hash(chunks[m].text, chunks[m].filename)
                  IN /\ id \in DOMAIN c_in.store
                     /\ chunks[m].relevance_score = r_score(id)
                     /\ chunks[m].doc_id = c_in.store[id].metadata.doc_id
                     /\ chunks[m].chunk_id = c_in.store[id].metadata.chunk_id
           /\ \A id \in DOMAIN c_in.store \ r_ids :
                  \A m \in 1..n : r_score(id) <= chunks[m].relevance_score

\* k records returned out of more, the first scoring above the last
C18_Witness ==
    /\ c_pc = "retrieved"
    /\ Len(c_out.chunks) = AskTopK
    /\ Cardinality(DOMAIN c_in.store) > AskTopK
    /\ c_out.chunks[1].relevance_score > c_out.chunks[AskTopK].relevance_score

-----------------------------------------------------------------------------
(* Properties of the hash check of upload_contract (Spec)                   *)

\* the chunks of the document of the upload op
u_chunks == _chunk_document(op.text, op.filename, chunk_size, overlap)

\* the positions of the chunks _check_existing_chunks did not report
u_unreported ==
    {j \in DOMAIN u_chunks : u_chunks[j].chunk_hash \notin Range(op.trace.existing_hashes)}

\* the upload op got as far as the hash check
Checked == op.name = "upload" /\ op.index /\ ~op.trace.chunk_raised

\* C19: the one embedding call of an upload gets exactly the texts of the
\* chunks that _check_existing_chunks did not report, in document order (so
\* no chunk whose hash is stored and whose lookup worked is embedded); when
\* no such chunk is left there is no embedding call, no similarity query and
\* no upsert.
C19_EmbedOnlyNewChunks ==
    Checked =>
        /\ u_unreported # {} =>
              /\ Len(op.trace.embed_calls) = 1
              /\ Len(op.trace.embed_calls[1]) = Cardinality(u_unreported)
              /\ \A m \in DOMAIN op.trace.embed_calls[1] :
                    \E j \in u_unreported :
                       /\ Cardinality({i \in u_unreported : i <= j}) = m
                       /\ op.trace.embed_calls[1][m] = u_chunks[j].text
              /\ ~op.trace.fetch_raised =>
                    \A m \in DOMAIN op.trace.embed_calls[1] :
                       _generate_chunk_hash(op.trace.embed_calls[1][m], op.filename)
                           \notin DOMAIN op.store_before
        /\ u_unreported = {} =>
              /\ op.trace.embed_calls = <<>>
              /\ op.trace.queries = 0
              /\ op.trace.upserts = <<>>
              /\ store = op.store_before

\* an upload with some chunks stored already and some to embed
C19_Witness ==
    /\ Checked
    /\ op.trace.existing_hashes # <<>>
    /\ u_unreported # {}
    /\ Len(op.trace.embed_calls[1]) < Len(u_chunks)

\* the lookups of the hash at position k that did not raise
u_answered(k) ==
    {j \in DOMAIN op.trace.hashes :
        op.trace.hashes[j] = op.trace.hashes[k] /\ j \notin op.trace.fetch_failed}

\* C20 as claimed: a hash whose lookup raised is treated as not existing (it
\* is not reported, stored or not) and its chunk is embedded again.
C20_Original ==
    Checked =>
        \A k \in op.trace.fetch_failed :
            /\ op.trace.hashes[k] \notin Range(op.trace.existing_hashes)
            /\ Len(op.trace.embed_calls) = 1
            /\ \E m \in DOMAIN op.trace.embed_calls[1] :
                  op.trace.embed_calls[1][m] = u_chunks[k].text

\* C20 as amended: a lookup that raises is swallowed.  A hash is reported as
\* existing exactly when it is stored and one of its lookups answered,
\* whatever the lookups before it did (a hash met twice in the document is
\* looked up twice); an upload in which only lookups raised still ends
\* with status "success"; a chunk none of whose lookups answered is embedded
\* again even though its hash is stored.
C20_FetchFailureSwallowed ==
    Checked =>
        /\ \A k \in DOMAIN op.trace.hashes :
              op.trace.hashes[k] \in Range(op.trace.existing_hashes)
                 <=> (op.trace.hashes[k] \in DOMAIN op.store_before /\ u_answered(k) # {})
        /\ (/\ op.trace.fetch_failed # {}
            /\ ~op.trace.embed_raised
            /\ \A k \in DOMAIN op.trace.upserts : op.trace.upserts[k].ok) =>
               op.result.status = "success"
        /\ \A k \in DOMAIN op.trace.hashes :
              (op.trace.hashes[k] \in DOMAIN op.store_before /\ u_answered(k) = {}) =>
                 /\ Len(op.trace.embed_calls) = 1
                 /\ \E m \in DOMAIN op.trace.embed_calls[1] :
                       op.trace.embed_calls[1][m] = u_chunks[k].text

\* the first lookup raised, the second was made and answered, and the chunk
\* of the first was upserted again over its stored record
C20_Witness ==
    /\ Checked
    /\ op.trace.fetch_failed = {1}
    /\ Len(op.trace.hashes) >= 2
    /\ op.trace.hashes[2] \in Range(op.trace.existing_hashes)
    /\ op.trace.hashes[1] \in DOMAIN op.store_before
    /\ \E k \in DOMAIN op.trace.upserts :
          op.trace.upserts[k].ok /\ op.trace.hashes[1] \in op.trace.upserts[k].ids
    /\ store[op.trace.hashes[1]] # op.store_before[op.trace.hashes[1]]

-----------------------------------------------------------------------------
(* Properties of the similarity check of upload_contract (Spec)             *)

\* the upload op made its embedding call and got the vectors
Embedded ==
    /\ Checked
    /\ Len(op.trace.embed_calls) = 1
    /\ ~op.trace.embed_raised

\* the scores of the neighbours the top-3 query returns for embedding j
d_neighbours(j) ==
    LET matches == Query(c_in.store, Embed(c_in.texts[j]), DedupTopK)
    IN [m \in DOMAIN matches |-> matches[m].score]

\* the check made all its queries and every one answered
d_answered == c_pc = "deduped" /\ c_in.index /\ ~c_out.failed

\* C21: when its queries answer, _similarity_deduplication_check marks index
\* i exactly when one of the at most three neighbours returned for embedding
\* i scores strictly above the threshold (a neighbour scoring the threshold
\* itself does not mark it); the indices returned are 0-based positions of the
\* embeddings, strictly increasing, so none appears twice.
C21_StrictThreshold ==
    d_answered =>
        LET dups == c_out.dups
        IN /\ \A j \in DOMAIN c_in.texts :
                 /\ Len(d_neighbours(j)) = Min(DedupTopK, Cardinality(DOMAIN c_in.store))
                 /\ (j - 1) \in Range(dups)
                       <=> \E m \in DOMAIN d_neighbours(j) : d_neighbours(j)[m] > Threshold
           /\ \A a \in DOMAIN dups : dups[a] + 1 \in DOMAIN c_in.texts
           /\ \A a, b \in DOMAIN dups : a < b => dups[a] < dups[b]

\* over a store of more than three records, the first embedding has its best
\* neighbour at the threshold exactly and is not marked, the second is marked
C21_Witness ==
    /\ d_answered
    /\ Cardinality(DOMAIN c_in.store) > DedupTopK
    /\ Len(c_in.texts) >= 2
    /\ d_neighbours(1)[1] = Threshold
    /\ c_out.dups = <<1>>

-----------------------------------------------------------------------------
(* Properties of the records upload_contract writes (Spec)                  *)

\* the ids of the records the upload op wrote: those of its batches that
\* went through
u_written ==
    UNION {op.trace.upserts[k].ids :
              k \in {i \in DOMAIN op.trace.upserts : op.trace.upserts[i].ok}}

\* C22: every record an upload wrote has as id the content hash of a chunk of
\* the document and as values the embedding of that same chunk's text, with
\* that chunk's text and chunk_index in its metadata, whatever the hash check
\* and the similarity check removed before it; the upload makes at most one
\* embedding call, whose texts are chunk texts in document order.
C22_ChunkVectorPairing ==
    Checked =>
        /\ \A id \in u_written :
              \E j \in DOMAIN u_chunks :
                 /\ id = u_chunks[j].chunk_hash
                 /\ store[id].values = Embed(u_chunks[j].text)
                 /\ store[id].metadata.text = u_chunks[j].text
                 /\ store[id].metadata.chunk_index = u_chunks[j].chunk_index
        /\ Len(op.trace.embed_calls) <= 1
        /\ \A c \in DOMAIN op.trace.embed_calls :
              LET texts == op.trace.embed_calls[c]
              IN \E pos \in [DOMAIN texts -> DOMAIN u_chunks] :
                    /\ \A m \in DOMAIN texts : texts[m] = u_chunks[pos[m]].text
                    /\ \A a, b \in DOMAIN texts : a < b => pos[a] < pos[b]

\* the first embedded chunk was dropped as a near-duplicate and a later one
\* was written
C22_Witness ==
    /\ Embedded
    /\ op.trace.duplicate_indices # <<>>
    /\ op.trace.duplicate_indices[1] = 0
    /\ u_written # {}
    /\ op.result.status = "success"

\* C23: the chunk_id in a stored record's metadata is the chunk's sequence
\* number within its document: chunk_NNN with NNN = chunk_index + 1, for every
\* record in the store.
C23_ChunkIdIsSequenceNumber ==
    \A id \in DOMAIN store :
        store[id].metadata.chunk_id = <<"chunk", store[id].metadata.chunk_index + 1>>

-----------------------------------------------------------------------------
(* Properties of the window configuration (ConfigSpec)                      *)

\* C24: a window with overlap >= chunk_size is rejected or clamped when it is
\* set: no upload reaches _chunk_document with overlap >= chunk_size, and the
\* chunking of a non-empty text neither fails because of the window step nor
\* gives zero chunks.
C24_WindowValidated ==
    /\ op.name = "configure" => (op.raised \/ overlap < chunk_size)
    /\ (op.name = "upload" /\ op.index) =>
          /\ overlap < chunk_size
          /\ (op.text # <<>> /\ ~EncodeRaises(op.text)) =>
                /\ ~op.trace.chunk_raised
                /\ op.trace.n_chunks > 0

-----------------------------------------------------------------------------
(* Properties of the similarity check within one upload (BatchSpec)         *)

\* new chunk j of the upload op reads nearly the same as a record that was
\* stored when the upload began
u_near_stored(j) ==
    \E id \in DOMAIN op.store_before :
        Score(op.store_before[id].values, Embed(op.trace.new_texts[j])) > Threshold

\* the pairs of new chunks of the upload op that read nearly the same as
\* each other, have hashes of their own and are near to nothing stored
u_twins ==
    {p \in (DOMAIN op.trace.new_texts) \X (DOMAIN op.trace.new_texts) :
        /\ p[1] < p[2]
        /\ Strip(op.trace.new_texts[p[1]]) # Strip(op.trace.new_texts[p[2]])
        /\ Score(Embed(op.trace.new_texts[p[1]]), Embed(op.trace.new_texts[p[2]])) > Threshold
        /\ ~u_near_stored(p[1]) /\ ~u_near_stored(p[2])}

\* C25: similarity suppression looks at earlier uploads only.  In a clean
\* upload a new chunk is marked exactly when a record stored before the call
\* began scores above the threshold (no record written by the call itself, in
\* an earlier batch or the same, is compared), and two new chunks that are
\* near-duplicates of each other and of nothing stored are both written.
C25_CrossUploadOnly ==
    (CleanUpload /\ Embedded) =>
        /\ \A j \in DOMAIN op.trace.new_texts :
              (j - 1) \in Range(op.trace.duplicate_indices) <=> u_near_stored(j)
        /\ \A p \in u_twins :
              /\ _generate_chunk_hash(op.trace.new_texts[p[1]], op.filename) \in u_written
              /\ _generate_chunk_hash(op.trace.new_texts[p[2]], op.filename) \in u_written

\* two near-duplicate chunks of one document were written by different
\* batches of the same upload
C25_Witness ==
    /\ CleanUpload /\ Embedded
    /\ Len(op.trace.upserts) = 2
    /\ \E p \in u_twins :
          /\ _generate_chunk_hash(op.trace.new_texts[p[1]], op.filename)
                \in op.trace.upserts[1].ids
          /\ _generate_chunk_hash(op.trace.new_texts[p[2]], op.filename)
                \in op.trace.upserts[2].ids
          /\ {_generate_chunk_hash(op.trace.new_texts[p[1]], op.filename),
              _generate_chunk_hash(op.trace.new_texts[p[2]], op.filename)} \subseteq DOMAIN store

-----------------------------------------------------------------------------
(* Properties of the counts upload_contract reports (RepeatSpec, Spec)      *)

\* the upload op answered the result that carries the three counts
Counted ==
    /\ op.name = "upload"
    /\ op.result.status = "success"
    /\ op.result.chunks_created >= 1

\* C26: in a successful upload that created at least one chunk,
\* chunks_created + chunks_skipped_hash + chunks_skipped_similarity is the
\* number of chunks of the document, and no chunk is both created and
\* skipped.
C26_UploadAccounting ==
    Counted =>
        /\ op.result.chunks_created + op.result.chunks_skipped_hash
              + op.result.chunks_skipped_similarity = op.trace.n_chunks
        /\ Range(op.trace.final_hashes) \cap Range(op.trace.existing_hashes) = {}

\* C27: after an upload that answered status "success" the store holds
\* exactly chunks_created records more than before the call, also when two
\* chunks of the document have the same text and so the same content hash.
C27_StoreGrowsByCreated ==
    (op.name = "upload" /\ op.result.status = "success") =>
        Cardinality(DOMAIN store)
            = Cardinality(DOMAIN op.store_before) + op.result.chunks_created

-----------------------------------------------------------------------------
(* Properties of a failing similarity check (Spec)                          *)

\* the hashes of the chunks of the upload op that passed the hash check
u_new_hashes ==
    {_generate_chunk_hash(op.trace.new_texts[j], op.filename) :
        j \in DOMAIN op.trace.new_texts}

\* C28: when a query of the similarity check raises, the check returns the
\* empty list, whatever duplicates the queries before it had found; the
\* upload then sends every chunk that passed the hash check to the upsert and,
\* the upserts going through, stores them all and answers status "success"
\* with chunks_skipped_similarity = 0.
C28_QueryFailureDisablesDedup ==
    (Embedded /\ op.trace.query_raised) =>
        /\ op.trace.duplicate_indices = <<>>
        /\ Range(op.trace.final_hashes) = u_new_hashes
        /\ Len(op.trace.final_hashes) = Len(op.trace.new_texts)
        /\ op.trace.upserts # <<>>
        /\ (\A k \in DOMAIN op.trace.upserts : op.trace.upserts[k].ok) =>
              /\ u_new_hashes \subseteq DOMAIN store
              /\ u_written = u_new_hashes
              /\ op.result.status = "success"
              /\ op.result.chunks_skipped_similarity = 0
              /\ op.result.chunks_created = Len(op.trace.new_texts)

\* the first query had found a near-duplicate, the second raised, and the
\* near-duplicate was stored
C28_Witness ==
    /\ Embedded /\ op.trace.query_raised
    /\ op.trace.queries = 2
    /\ 1 \in op.trace.near_dups
    /\ _generate_chunk_hash(op.trace.new_texts[1], op.filename) \in DOMAIN store
    /\ _generate_chunk_hash(op.trace.new_texts[1], op.filename) \notin DOMAIN op.store_before
    /\ op.result.status = "success"
    /\ op.result.chunks_skipped_similarity = 0

-----------------------------------------------------------------------------
(* Properties of uploads under another filename (Spec)                      *)

\* the upload op is clean, of a document of at least one chunk, every chunk
\* text of which is stored under another filename and none under its own
StoredElsewhere ==
    /\ CleanUpload
    /\ u_chunks # <<>>
    /\ \A j \in DOMAIN u_chunks :
          /\ \E id \in DOMAIN op.store_before :
                /\ op.store_before[id].metadata.filename # op.filename
                /\ op.store_before[id].metadata.text = u_chunks[j].text
          /\ \A id \in DOMAIN op.store_before :
                op.store_before[id].metadata.filename = op.filename
                   => Strip(op.store_before[id].metadata.text) # Strip(u_chunks[j].text)

\* C29: the content hash covers the filename, so a text stored under one
\* filename and uploaded under another passes the hash check with every
\* chunk (all are embedded); the store answering the queries, every chunk
\* is then marked by the similarity check: the upload answers status
\* "success" with chunks_created = 0 and the store is as before.
C29_OtherFilenameSuppressed ==
    StoredElsewhere =>
        /\ op.trace.existing_hashes = <<>>
        /\ op.trace.embed_calls = <<[j \in DOMAIN u_chunks |-> u_chunks[j].text]>>
        /\ op.trace.queries = Len(u_chunks)
        /\ op.trace.duplicate_indices = [j \in DOMAIN u_chunks |-> j - 1]
        /\ op.trace.upserts = <<>>
        /\ op.result.status = "success"
        /\ op.result.chunks_created = 0
        /\ store = op.store_before

\* a document of two chunks uploaded again under the other filename
C29_Witness ==
    /\ StoredElsewhere
    /\ Len(u_chunks) >= 2
    /\ prev.name = "upload" /\ prev.text = op.text /\ prev.filename # op.filename
    /\ op.result.chunks_created = 0
    /\ op.result.message = "All chunks were duplicates - no new vectors added"

-----------------------------------------------------------------------------
(* Properties of the in-memory RAGService (MemSpec)                         *)

\* C30: after every sequence of upload_contract calls of the in-memory
\* service, failed ones included, the FAISS index holds as many vectors as
\* document_chunks and document_metadata hold entries, the vector at each
\* position is the embedding of the chunk at that position (whose metadata
\* carries that position as global_index), and every position a search
\* returns is turned into the chunk stored at that position.
C30_MemAligned ==
    /\ Len(mem.index.vectors) = Len(mem.document_chunks)
    /\ Len(mem.document_metadata) = Len(mem.document_chunks)
    /\ \A p \in DOMAIN mem.index.vectors :
          /\ mem.index.vectors[p] = Normalize(Embed(mem.document_chunks[p].text))
          /\ mem.document_metadata[p].global_index = p - 1
          /\ mem.document_metadata[p].chunk_index = mem.document_chunks[p].chunk_index
    /\ (op.name = "mem_retrieve" /\ ~op.raised) =>
          /\ Len(op.chunks) = Len(op.hits)
          /\ \A h \in DOMAIN op.hits :
                LET idx == op.hits[h].idx
                IN /\ idx + 1 \in DOMAIN mem.document_chunks
                   /\ op.chunks[h].text = mem.document_chunks[idx + 1].text
                   /\ op.chunks[h].chunk_index = mem.document_chunks[idx + 1].chunk_index
                   /\ op.chunks[h].relevance_score
                         = InnerProduct(mem.index.vectors[idx + 1], Normalize(Embed(op.query)))

\* a search over the chunks of a successful upload that was followed by a
\* failed one, returning a chunk that is not the first
C30_Witness ==
    /\ op.name = "mem_retrieve" /\ ~op.raised
    /\ prev.name = "mem_upload" /\ prev.status = "error"
    /\ Len(mem.document_chunks) >= 2
    /\ Len(op.hits) >= 1
    /\ op.hits[1].idx > 0
    /\ clock = 3

====
